---- MODULE Spec2Model ----
(***************************************************************************)
(* One run of xbar-plugins/github-review-requests.5m.py: the credential    *)
(* check, the two GraphQL searches, the TARGET_* scope filter and the      *)
(* menu lines printed on standard output.                                  *)
(*                                                                         *)
(* A Python string is a sequence of fragments whose concatenation is the   *)
(* string.  Repository names and PR titles are kept character by character *)
(* (one-character fragments) because split('/') and replace('|', '-') look *)
(* inside them; fixed pieces of format strings are single fragments.  The  *)
(* glyphs of the source are written by code point ("U+26A0").              *)
(***************************************************************************)
EXTENDS Integers, Sequences, FiniteSets, TLC

\* ------------------------------------------------------------------ bounds
\* Longest edge list a search response carries in the model (the query asks
\* for at most 100).
MaxReviewEdges == 2
MaxAuthoredEdges == 1

\* ------------------------------------------------------------ program state
VARIABLES
    ACCESS_TOKEN,             \* config, line 20
    GITHUB_LOGIN,             \* config, line 23
    WIP_LABEL,                \* config, line 26
    TARGET_ORGS,              \* config, line 32
    TARGET_REPOS,             \* config, line 35
    TARGET_USERS,             \* config, line 38
    DARK_MODE,                \* line 55
    pc,                       \* position of the script in __main__
    requests,                 \* search queries handed to urlopen, in order
    review_requests,          \* edges of the first response (line 159)
    authored_prs,             \* edges of the second response (line 160)
    filtered_review_requests, \* line 163
    filtered_authored_prs,    \* line 164
    idx,                      \* position of the running for loop (175, 192)
    stdout,                   \* lines printed so far
    exception,                \* call whose exception went uncaught, or "none"
    exit_status               \* process exit status, NoStatus while running

vars == <<ACCESS_TOKEN, GITHUB_LOGIN, WIP_LABEL, TARGET_ORGS, TARGET_REPOS,
          TARGET_USERS, DARK_MODE, pc, requests, review_requests, authored_prs,
          filtered_review_requests, filtered_authored_prs, idx, stdout,
          exception, exit_status>>

config == <<ACCESS_TOKEN, GITHUB_LOGIN, WIP_LABEL, TARGET_ORGS, TARGET_REPOS,
            TARGET_USERS, DARK_MODE>>

NoStatus == -1

\* ------------------------------------------------------------- input domain
AcmeWidgets == <<"a", "c", "/", "w">>
AcmeTools == <<"a", "c", "/", "t">>
OtherWidgets == <<"o", "t", "/", "w">>
NoSlash == <<"a", "c">>
Acme == <<"a", "c">>
Other == <<"o", "t">>

\* The pull requests a search may return (the node of an edge, lines 61-78).
PullRequests ==
    { [repository |-> AcmeWidgets, author |-> "alice",
       createdAt |-> [year |-> 2024, month |-> 3, day |-> 5],
       number |-> 42, url |-> "u42", title |-> <<"F", "i", "x">>,
       labels |-> <<>>],
      [repository |-> AcmeTools, author |-> "bob",
       createdAt |-> [year |-> 2023, month |-> 12, day |-> 31],
       number |-> 7, url |-> "u7", title |-> <<"a", "|", "b">>,
       labels |-> <<"WIP">>],
      [repository |-> OtherWidgets, author |-> "alice",
       createdAt |-> [year |-> 2024, month |-> 1, day |-> 9],
       number |-> 8, url |-> "u8", title |-> <<"|", "|">>,
       labels |-> <<"">>],
      [repository |-> NoSlash, author |-> "bob",
       createdAt |-> [year |-> 2024, month |-> 10, day |-> 10],
       number |-> 9, url |-> "u9", title |-> <<"x">>,
       labels |-> <<"bug", "WIP">>] }

RECURSIVE SeqsUpTo(_, _)
SeqsUpTo(S, n) ==
    IF n = 0 THEN {<<>>}
    ELSE LET shorter == SeqsUpTo(S, n - 1)
         IN shorter \cup {Append(s, x) : s \in {t \in shorter : Len(t) = n - 1}, x \in S}

\* An edge wraps its pull request: {'node': {...}} (line 61).
Edges(n) == SeqsUpTo({[node |-> p] : p \in PullRequests}, n)

\* ------------------------------------------------------------------ config
FILTERS == "draft:false"

query(search_query) ==
    <<"{ search(query: \"">> \o search_query \o <<"\", type: ISSUE, first: 100) {...} }">>

colors ==
    [inactive |-> "#b4b4b4",
     title |-> IF DARK_MODE THEN "#ffffff" ELSE "#000000",
     subtitle |-> "#586069"]

\* ------------------------------------------------------- Python primitives
\* x in list
In(x, list) == \E i \in 1..Len(list) : list[i] = x

\* str.split(sep): the pieces between the occurrences of sep, left to right.
RECURSIVE split(_, _)
split(s, sep) ==
    LET hits == {i \in 1..Len(s) : s[i] = sep}
    IN IF hits = {} THEN <<s>>
       ELSE LET first == CHOOSE i \in hits : \A j \in hits : i <= j
            IN <<SubSeq(s, 1, first - 1)>> \o split(SubSeq(s, first + 1, Len(s)), sep)

\* A replace that stops after the first occurrence (str.replace(old, new, 1)).
replace_first(s, old, new) ==
    LET hits == {i \in 1..Len(s) : s[i] = old}
    IN IF hits = {} THEN s
       ELSE LET first == CHOOSE i \in hits : \A j \in hits : i <= j
            IN [s EXCEPT ![first] = new]

\* str.replace(old, new) for a one-character old: every occurrence.
RECURSIVE replace(_, _, _)
replace(s, old, new) ==
    IF s = <<>> THEN <<>>
    ELSE <<IF Head(s) = old THEN new ELSE Head(s)>> \o replace(Tail(s), old, new)

MonthName ==
    <<"January", "February", "March", "April", "May", "June", "July",
      "August", "September", "October", "November", "December">>

\* strptime('%Y-%m-%dT%H:%M:%SZ') then strftime('%B %d, %Y'): the time of day
\* is dropped, the day is padded to two digits.
parse_date(text) ==
    <<MonthName[text.month], " ">>
    \o (IF text.day < 10 THEN <<"0", ToString(text.day)>> ELSE <<ToString(text.day)>>)
    \o <<", ", ToString(text.year)>>

RECURSIVE join_params(_)
join_params(kwargs) ==
    IF kwargs = <<>> THEN <<>>
    ELSE <<kwargs[1][1], "=", kwargs[1][2]>>
         \o (IF Len(kwargs) = 1 THEN <<>> ELSE <<" ">> \o join_params(Tail(kwargs)))

\* The line print_line(text, **kwargs) writes: text alone, or text, " | " and
\* the key=value tokens joined by spaces.
print_line(text, kwargs) ==
    IF kwargs # <<>> THEN text \o <<" | ">> \o join_params(kwargs) ELSE text

\* ------------------------------------------------------------- scope filter
\* A filter that compares the whole repository name with TARGET_ORGS.
should_include_pr_whole_name(pr) ==
    LET repo_name == pr.repository
        author_name == pr.author
    IN IF TARGET_ORGS # <<>> /\ ~In(repo_name, TARGET_ORGS) THEN FALSE
       ELSE IF TARGET_REPOS # <<>> /\ ~In(repo_name, TARGET_REPOS) THEN FALSE
       ELSE IF TARGET_USERS # <<>> /\ ~In(author_name, TARGET_USERS) THEN FALSE
       ELSE TRUE

should_include_pr(pr) ==
    LET repo_name == pr.repository
        author_name == pr.author
        org_name == split(repo_name, "/")[1]
    IN IF TARGET_ORGS # <<>> /\ ~In(org_name, TARGET_ORGS) THEN FALSE
       ELSE IF TARGET_REPOS # <<>> /\ ~In(repo_name, TARGET_REPOS) THEN FALSE
       ELSE IF TARGET_USERS # <<>> /\ ~In(author_name, TARGET_USERS) THEN FALSE
       ELSE TRUE

\* A comprehension that collects the kept nodes in reverse.
RECURSIVE filter_nodes_reversed(_)
filter_nodes_reversed(edges) ==
    IF edges = <<>> THEN <<>>
    ELSE filter_nodes_reversed(Tail(edges))
         \o (IF should_include_pr(Head(edges).node) THEN <<Head(edges).node>> ELSE <<>>)

\* [r['node'] for r in edges if should_include_pr(r['node'])]
RECURSIVE filter_nodes(_)
filter_nodes(edges) ==
    IF edges = <<>> THEN <<>>
    ELSE (IF should_include_pr(Head(edges).node) THEN <<Head(edges).node>> ELSE <<>>)
         \o filter_nodes(Tail(edges))

\* ----------------------------------------------------------------- queries
review_query(login, filters) ==
    query(<<"type:pr state:open review-requested:", login, " ", filters>>)

authored_query(login, filters) ==
    query(<<"type:pr state:open author:", login, " ", filters>>)

\* ---------------------------------------------------------------- rendering
Separator == print_line(<<"---">>, <<>>)

title_text_first_only(pr) ==
    pr.repository \o <<" - ">> \o replace_first(pr.title, "|", "-")

\* '%s - %s' % (nameWithOwner, title.replace('|', '-'))
title_text(pr) ==
    pr.repository \o <<" - ">> \o replace(pr.title, "|", "-")

subtitle_text(pr) ==
    <<"#", ToString(pr.number), " opened on ">> \o parse_date(pr.createdAt)
    \o <<" by @", pr.author>>

\* One iteration of either for loop: the title line, the subtitle line and
\* the separator.
entry_lines(pr) ==
    LET labels == pr.labels
        title_color == IF In(WIP_LABEL, labels) THEN colors.inactive ELSE colors.title
        subtitle_color == IF In(WIP_LABEL, labels) THEN colors.inactive ELSE colors.subtitle
    IN << print_line(title_text(pr),
                     << <<"size", "12">>, <<"color", title_color>>, <<"href", pr.url>> >>),
          print_line(subtitle_text(pr),
                     << <<"size", "10">>, <<"color", subtitle_color>> >>),
          Separator >>

ReviewGlyph == "U+1F440"
AuthoredGlyph == "U+270D U+FE0F"
WarningGlyph == "U+26A0"

header_lines(glyph, label, count) ==
    << print_line(<<glyph, label, ToString(count), ")">>,
                  << <<"color", colors.title>>, <<"font", "Menlo-Bold">>, <<"size", "13">> >>),
       Separator >>

total_count_unfiltered == Len(review_requests) + Len(authored_prs)

total_count == Len(filtered_review_requests) + Len(filtered_authored_prs)

summary_lines == << print_line(<<"PR: ", ToString(total_count)>>, <<>>), Separator >>

\* -------------------------------------------------------------------- Init
Logins == {"", "octocat"}
Tokens == {"", "ghp_x"}
WipLabels == {"", "WIP"}
OrgLists == {<<>>, <<Acme>>, <<Other>>}
RepoLists == {<<>>, <<AcmeWidgets>>, <<OtherWidgets, AcmeTools>>}
UserLists == {<<>>, <<"alice">>}

Init ==
    /\ ACCESS_TOKEN \in Tokens
    /\ GITHUB_LOGIN \in Logins
    /\ WIP_LABEL \in WipLabels
    /\ TARGET_ORGS \in OrgLists
    /\ TARGET_REPOS \in RepoLists
    /\ TARGET_USERS \in UserLists
    /\ DARK_MODE \in BOOLEAN
    /\ pc = "main"
    /\ requests = <<>>
    /\ review_requests = <<>>
    /\ authored_prs = <<>>
    /\ filtered_review_requests = <<>>
    /\ filtered_authored_prs = <<>>
    /\ idx = 0
    /\ stdout = <<>>
    /\ exception = "none"
    /\ exit_status = NoStatus

\* ----------------------------------------------------------------- actions
\* any() in place of all(): one of the two settings is enough.
credentials_any == ACCESS_TOKEN # "" \/ GITHUB_LOGIN # ""

\* all([ACCESS_TOKEN, GITHUB_LOGIN]): both strings are non-empty.
credentials_set == ACCESS_TOKEN # "" /\ GITHUB_LOGIN # ""

\* Lines 153-157: the warning menu and sys.exit(0).
MissingCredentials ==
    /\ pc = "main"
    /\ ~credentials_set
    /\ stdout' = stdout \o
          << print_line(<<WarningGlyph, " Github review requests">>, << <<"color", "red">> >>),
             print_line(<<"---">>, <<>>),
             print_line(<<"ACCESS_TOKEN and GITHUB_LOGIN cannot be empty">>, <<>>) >>
    /\ exit_status' = 0
    /\ pc' = "exited"
    /\ UNCHANGED <<config, requests, review_requests, authored_prs,
                   filtered_review_requests, filtered_authored_prs, idx, exception>>

\* Line 159, the response arrives: one request, its edges are kept.
GetReviewRequests ==
    /\ pc = "main"
    /\ credentials_set
    /\ requests' = Append(requests, review_query(GITHUB_LOGIN, FILTERS))
    /\ \E edges \in Edges(MaxReviewEdges) : review_requests' = edges
    /\ pc' = "get_authored_prs"
    /\ UNCHANGED <<config, authored_prs, filtered_review_requests,
                   filtered_authored_prs, idx, stdout, exception, exit_status>>

\* A handler that swallows the failure and goes on with no edges.
GetReviewRequestsFailsCaught ==
    /\ pc = "main"
    /\ credentials_set
    /\ requests' = Append(requests, review_query(GITHUB_LOGIN, FILTERS))
    /\ exception' = "get_review_requests"
    /\ pc' = "get_authored_prs"
    /\ UNCHANGED <<config, review_requests, authored_prs, filtered_review_requests,
                   filtered_authored_prs, idx, stdout, exit_status>>

\* A failure that sends the script back to issue the request again.
GetReviewRequestsFailsRetried ==
    /\ pc = "main"
    /\ credentials_set
    /\ Len(requests) < 2
    /\ requests' = Append(requests, review_query(GITHUB_LOGIN, FILTERS))
    /\ UNCHANGED <<config, pc, review_requests, authored_prs, filtered_review_requests,
                   filtered_authored_prs, idx, stdout, exception, exit_status>>

\* Line 159, urlopen, json.loads or the ['data']['search'] lookup raises:
\* nothing catches it, the interpreter exits with status 1.
GetReviewRequestsFails ==
    /\ pc = "main"
    /\ credentials_set
    /\ requests' = Append(requests, review_query(GITHUB_LOGIN, FILTERS))
    /\ exception' = "get_review_requests"
    /\ exit_status' = 1
    /\ pc' = "crashed"
    /\ UNCHANGED <<config, review_requests, authored_prs, filtered_review_requests,
                   filtered_authored_prs, idx, stdout>>

\* Line 160, the response arrives.
GetAuthoredPrs ==
    /\ pc = "get_authored_prs"
    /\ requests' = Append(requests, authored_query(GITHUB_LOGIN, FILTERS))
    /\ \E edges \in Edges(MaxAuthoredEdges) : authored_prs' = edges
    /\ pc' = "filter"
    /\ UNCHANGED <<config, review_requests, filtered_review_requests,
                   filtered_authored_prs, idx, stdout, exception, exit_status>>

\* Line 160, the call raises.
GetAuthoredPrsFails ==
    /\ pc = "get_authored_prs"
    /\ requests' = Append(requests, authored_query(GITHUB_LOGIN, FILTERS))
    /\ exception' = "get_authored_prs"
    /\ exit_status' = 1
    /\ pc' = "crashed"
    /\ UNCHANGED <<config, review_requests, authored_prs, filtered_review_requests,
                   filtered_authored_prs, idx, stdout>>

\* Lines 163-164.
ApplyFilters ==
    /\ pc = "filter"
    /\ filtered_review_requests' = filter_nodes(review_requests)
    /\ filtered_authored_prs' = filter_nodes(authored_prs)
    /\ pc' = "summary"
    /\ UNCHANGED <<config, requests, review_requests, authored_prs, idx, stdout,
                   exception, exit_status>>

\* Lines 166-168.
PrintSummary ==
    /\ pc = "summary"
    /\ stdout' = stdout \o summary_lines
    /\ pc' = "review_section"
    /\ UNCHANGED <<config, requests, review_requests, authored_prs,
                   filtered_review_requests, filtered_authored_prs, idx,
                   exception, exit_status>>

\* A section that prints its header whatever the size of its list.
ReviewSectionAlways ==
    /\ pc = "review_section"
    /\ stdout' = stdout \o header_lines(ReviewGlyph, " Review Requested (",
                                        Len(filtered_review_requests))
    /\ IF filtered_review_requests # <<>>
       THEN idx' = 1 /\ pc' = "review_loop"
       ELSE idx' = idx /\ pc' = "authored_section"
    /\ UNCHANGED <<config, requests, review_requests, authored_prs,
                   filtered_review_requests, filtered_authored_prs,
                   exception, exit_status>>

\* Lines 171-173: the header of the first section, or nothing.
ReviewSection ==
    /\ pc = "review_section"
    /\ IF filtered_review_requests # <<>>
       THEN /\ stdout' = stdout \o header_lines(ReviewGlyph, " Review Requested (",
                                                Len(filtered_review_requests))
            /\ idx' = 1
            /\ pc' = "review_loop"
       ELSE /\ pc' = "authored_section"
            /\ UNCHANGED <<stdout, idx>>
    /\ UNCHANGED <<config, requests, review_requests, authored_prs,
                   filtered_review_requests, filtered_authored_prs,
                   exception, exit_status>>

\* Lines 175-185: one iteration of the first loop.
ReviewEntry ==
    /\ pc = "review_loop"
    /\ stdout' = stdout \o entry_lines(filtered_review_requests[idx])
    /\ IF idx < Len(filtered_review_requests)
       THEN idx' = idx + 1 /\ pc' = pc
       ELSE idx' = 0 /\ pc' = "authored_section"
    /\ UNCHANGED <<config, requests, review_requests, authored_prs,
                   filtered_review_requests, filtered_authored_prs,
                   exception, exit_status>>

\* Lines 188-190: the header of the second section, or nothing.
AuthoredSection ==
    /\ pc = "authored_section"
    /\ IF filtered_authored_prs # <<>>
       THEN /\ stdout' = stdout \o header_lines(AuthoredGlyph, " Created by Me (",
                                                Len(filtered_authored_prs))
            /\ idx' = 1
            /\ pc' = "authored_loop"
       ELSE /\ pc' = "end"
            /\ UNCHANGED <<stdout, idx>>
    /\ UNCHANGED <<config, requests, review_requests, authored_prs,
                   filtered_review_requests, filtered_authored_prs,
                   exception, exit_status>>

\* An iteration that leaves out the separator after the entry.
AuthoredEntryNoSeparator ==
    /\ pc = "authored_loop"
    /\ stdout' = stdout \o SubSeq(entry_lines(filtered_authored_prs[idx]), 1, 2)
    /\ IF idx < Len(filtered_authored_prs)
       THEN idx' = idx + 1 /\ pc' = pc
       ELSE idx' = 0 /\ pc' = "end"
    /\ UNCHANGED <<config, requests, review_requests, authored_prs,
                   filtered_review_requests, filtered_authored_prs,
                   exception, exit_status>>

\* Lines 192-202: one iteration of the second loop.
AuthoredEntry ==
    /\ pc = "authored_loop"
    /\ stdout' = stdout \o entry_lines(filtered_authored_prs[idx])
    /\ IF idx < Len(filtered_authored_prs)
       THEN idx' = idx + 1 /\ pc' = pc
       ELSE idx' = 0 /\ pc' = "end"
    /\ UNCHANGED <<config, requests, review_requests, authored_prs,
                   filtered_review_requests, filtered_authored_prs,
                   exception, exit_status>>

\* The script runs off its last line: the interpreter exits with status 0.
Exit ==
    /\ pc = "end"
    /\ exit_status' = 0
    /\ pc' = "exited"
    /\ UNCHANGED <<config, requests, review_requests, authored_prs,
                   filtered_review_requests, filtered_authored_prs, idx, stdout,
                   exception>>

Next ==
    \/ MissingCredentials
    \/ GetReviewRequests
    \/ GetReviewRequestsFails
    \/ GetAuthoredPrs
    \/ GetAuthoredPrsFails
    \/ ApplyFilters
    \/ PrintSummary
    \/ ReviewSection
    \/ ReviewEntry
    \/ AuthoredSection
    \/ AuthoredEntry
    \/ Exit

Spec == Init /\ [][Next]_vars

\* ======================================================== reading the output
\* Position of the " | " that print_line puts before the attributes
\* (Len(line) + 1 when the line has none).
SepIndex(line) ==
    LET hits == {i \in 1..Len(line) : line[i] = " | "}
    IN IF hits = {} THEN Len(line) + 1
       ELSE CHOOSE i \in hits : \A j \in hits : i <= j

TextOf(line) == SubSeq(line, 1, SepIndex(line) - 1)

HasAttr(line, key) ==
    \E i \in (SepIndex(line) + 1)..(Len(line) - 2) : line[i] = key /\ line[i + 1] = "="

AttrOf(line, key) ==
    line[(CHOOSE i \in (SepIndex(line) + 1)..(Len(line) - 2) :
              line[i] = key /\ line[i + 1] = "=") + 2]

IsPrefix(p, s) == Len(p) <= Len(s) /\ SubSeq(s, 1, Len(p)) = p

SectionLen(prs) == IF prs = <<>> THEN 0 ELSE 2 + 3 * Len(prs)

\* Where the lines of the k-th entry of each section go.
ReviewTitlePos(k) == 2 + 2 + 3 * (k - 1) + 1
AuthoredHeaderPos == 2 + SectionLen(filtered_review_requests) + 1
AuthoredTitlePos(k) == AuthoredHeaderPos + 1 + 3 * (k - 1) + 1

\* Entries of each section that are on standard output already.
ReviewPrinted ==
    {k \in 1..Len(filtered_review_requests) : Len(stdout) >= ReviewTitlePos(k) + 2}
AuthoredPrinted ==
    {k \in 1..Len(filtered_authored_prs) : Len(stdout) >= AuthoredTitlePos(k) + 2}

NodesOf(edges) == [i \in 1..Len(edges) |-> edges[i].node]

Terminated == pc \in {"exited", "crashed"}
FiltersApplied == pc \in {"summary", "review_section", "review_loop",
                          "authored_section", "authored_loop", "end"}
                  \/ (pc = "exited" /\ Len(requests) = 2)
RenderingReached == FiltersApplied /\ pc # "summary"
CredentialsPresent == ACCESS_TOKEN # "" /\ GITHUB_LOGIN # ""

\* orgName of the claims: the part of the name before its first '/', the
\* whole name when it has none.
OrgNameOf(name) ==
    CHOOSE p \in {SubSeq(name, 1, n) : n \in 0..Len(name)} :
        /\ \A i \in 1..Len(p) : p[i] # "/"
        /\ Len(p) = Len(name) \/ name[Len(p) + 1] = "/"

ScopeAccepts(pr) ==
    /\ TARGET_ORGS = <<>> \/ In(OrgNameOf(pr.repository), TARGET_ORGS)
    /\ TARGET_REPOS = <<>> \/ In(pr.repository, TARGET_REPOS)
    /\ TARGET_USERS = <<>> \/ In(pr.author, TARGET_USERS)

\* ================================================================== claims

C2_MissingCredentials ==
    (ACCESS_TOKEN = "" \/ GITHUB_LOGIN = "") =>
        /\ requests = <<>>
        /\ pc \in {"main", "exited"}
        /\ pc = "main" => stdout = <<>> /\ exit_status = NoStatus
        /\ pc = "exited" =>
              /\ exit_status = 0
              /\ stdout = << <<WarningGlyph, " Github review requests", " | ",
                               "color", "=", "red">>,
                             <<"---">>,
                             <<"ACCESS_TOKEN and GITHUB_LOGIN cannot be empty">> >>

\* The token is empty, the login is not, and the run is over.
C2_Witness ==
    /\ ACCESS_TOKEN = ""
    /\ GITHUB_LOGIN # ""
    /\ pc = "exited"
    /\ Len(stdout) = 3

\* C3 as stated: with credentials present every finished run has issued
\* exactly the two searches, review-requested then authored, has filtered
\* both result sets and has status 0.
C3_Original ==
    (CredentialsPresent /\ Terminated) =>
        /\ requests = <<review_query(GITHUB_LOGIN, FILTERS),
                        authored_query(GITHUB_LOGIN, FILTERS)>>
        /\ filtered_review_requests = SelectSeq(NodesOf(review_requests), ScopeAccepts)
        /\ filtered_authored_prs = SelectSeq(NodesOf(authored_prs), ScopeAccepts)
        /\ exit_status = 0

\* C3 amended: with credentials present each search is issued at most once
\* and never again, review-requested first, authored only after the first has
\* returned; a run in which no search fails issues exactly the two, filters
\* each result set with the same configuration and ends with status 0.
C3_Amended ==
    CredentialsPresent =>
        /\ requests \in {<<>>,
                         <<review_query(GITHUB_LOGIN, FILTERS)>>,
                         <<review_query(GITHUB_LOGIN, FILTERS),
                           authored_query(GITHUB_LOGIN, FILTERS)>>}
        /\ Len(requests) = 2 => pc # "main" /\ exception # "get_review_requests"
        /\ (Terminated /\ exception = "none") =>
              /\ Len(requests) = 2
              /\ filtered_review_requests = SelectSeq(NodesOf(review_requests), ScopeAccepts)
              /\ filtered_authored_prs = SelectSeq(NodesOf(authored_prs), ScopeAccepts)
              /\ exit_status = 0

\* Both searches returned, the filter dropped a record of the first set and
\* kept the record of the second, and the run ended normally.
C3_Witness ==
    /\ pc = "exited"
    /\ Len(requests) = 2
    /\ Len(review_requests) = 2
    /\ Len(filtered_review_requests) = 1
    /\ Len(filtered_authored_prs) = 1
    /\ exit_status = 0

\* C4: once rendering is reached the first line is 'PR: {totalCount}' and the
\* second the separator, totalCount being the sizes of the two filtered sets
\* added up, a record in both sets counted twice.
C4_SummaryFirst ==
    (RenderingReached \/ (CredentialsPresent /\ stdout # <<>>)) =>
        /\ Len(stdout) >= 2
        /\ stdout[1] = <<"PR: ", ToString(Len(filtered_review_requests)
                                          + Len(filtered_authored_prs))>>
        /\ stdout[2] = <<"---">>

\* The same record is in both filtered sets and the summary says 2.
C4_Witness ==
    /\ pc = "exited"
    /\ Len(filtered_review_requests) = 1
    /\ filtered_authored_prs = filtered_review_requests
    /\ Len(review_requests) = 2
    /\ stdout[1] = <<"PR: ", "2">>

\* C5: a rendered entry has both lines in the muted colour if the WIP label
\* is non-empty and among the record's labels; in every other case, an empty
\* WIP label included, the title has the primary colour and the subtitle the
\* secondary colour.
C5_Claim ==
    LET Primary == IF DARK_MODE THEN "#ffffff" ELSE "#000000"
        Right(pr, pos) ==
            IF WIP_LABEL # "" /\ In(WIP_LABEL, pr.labels)
            THEN /\ AttrOf(stdout[pos], "color") = "#b4b4b4"
                 /\ AttrOf(stdout[pos + 1], "color") = "#b4b4b4"
            ELSE /\ AttrOf(stdout[pos], "color") = Primary
                 /\ AttrOf(stdout[pos + 1], "color") = "#586069"
    IN /\ \A k \in ReviewPrinted : Right(filtered_review_requests[k], ReviewTitlePos(k))
       /\ \A k \in AuthoredPrinted : Right(filtered_authored_prs[k], AuthoredTitlePos(k))

\* C6: with both filtered sets empty the output is exactly 'PR: 0' and one
\* separator, whether the searches returned nothing or the filter rejected
\* every record.
C6_EmptyMenu ==
    (pc = "exited" /\ Len(requests) = 2
        /\ filtered_review_requests = <<>> /\ filtered_authored_prs = <<>>) =>
        stdout = << <<"PR: ", "0">>, <<"---">> >>

\* A record of organisation 'ac' was returned under TARGET_ORGS = ['ot'] and
\* the run ended with both filtered sets empty.
C6_Witness ==
    /\ pc = "exited"
    /\ TARGET_ORGS = <<Other>>
    /\ Len(review_requests) = 1
    /\ review_requests[1].node.repository = AcmeWidgets
    /\ authored_prs = <<>>
    /\ filtered_review_requests = <<>>
    /\ Len(stdout) = 2

\* C7: a section is printed iff its filtered set is non-empty; a printed
\* section is one header with the count, one separator, then a title line, a
\* subtitle line and a separator per record; Review Requested comes before
\* Created by Me; the output has 2 + sum over non-empty sets of (2 + 3 * size)
\* lines.
C7_Sections ==
    LET Headers(glyph) == {i \in 1..Len(stdout) : stdout[i][1] = glyph}
        Section(glyph, label, prs, at) ==
            /\ Headers(glyph) = IF prs = <<>> THEN {} ELSE {at}
            /\ prs # <<>> =>
                  /\ TextOf(stdout[at]) = <<glyph, label, ToString(Len(prs)), ")">>
                  /\ stdout[at + 1] = <<"---">>
                  /\ \A k \in 1..Len(prs) :
                        /\ IsPrefix(prs[k].repository \o <<" - ">>, stdout[at + 3 * k - 1])
                        /\ IsPrefix(<<"#", ToString(prs[k].number)>>, stdout[at + 3 * k])
                        /\ stdout[at + 3 * k + 1] = <<"---">>
    IN /\ \A i \in 1..Len(stdout), j \in 1..Len(stdout) :
             (stdout[i][1] = ReviewGlyph /\ stdout[j][1] = AuthoredGlyph) => i < j
       /\ (pc = "exited" /\ Len(requests) = 2) =>
             /\ Len(stdout) = 2 + SectionLen(filtered_review_requests)
                                + SectionLen(filtered_authored_prs)
             /\ Section(ReviewGlyph, " Review Requested (", filtered_review_requests, 3)
             /\ Section(AuthoredGlyph, " Created by Me (", filtered_authored_prs,
                        AuthoredHeaderPos)

\* Both sections were printed: 2 + (2 + 3 * 2) + (2 + 3 * 1) lines.
C7_Witness ==
    /\ pc = "exited"
    /\ Len(filtered_review_requests) = 2
    /\ Len(filtered_authored_prs) = 1
    /\ Len(stdout) = 15

\* C8: the text of a title line is '{repositoryFullName} - {title}' with
\* every '|' of the title replaced by '-', and contains no '|'.
C8_TitleEscaped ==
    LET Escaped(t) == [i \in 1..Len(t) |-> IF t[i] = "|" THEN "-" ELSE t[i]]
        Right(pr, pos) ==
            /\ TextOf(stdout[pos]) = pr.repository \o <<" - ">> \o Escaped(pr.title)
            /\ \A i \in 1..Len(TextOf(stdout[pos])) : TextOf(stdout[pos])[i] # "|"
            /\ HasAttr(stdout[pos], "href")
    IN /\ \A k \in ReviewPrinted : Right(filtered_review_requests[k], ReviewTitlePos(k))
       /\ \A k \in AuthoredPrinted : Right(filtered_authored_prs[k], AuthoredTitlePos(k))

\* The entry of a record titled '||' is on standard output.
C8_Witness ==
    /\ 1 \in ReviewPrinted
    /\ filtered_review_requests[1].title = <<"|", "|">>
    /\ TextOf(stdout[ReviewTitlePos(1)]) = OtherWidgets \o <<" - ", "-", "-">>

\* C9: the scope filter keeps exactly the included records in their input
\* order, the entries are rendered in that order, and with the three target
\* lists empty the filtered sequence is the input sequence.
C9_OrderPreserved ==
    LET Kept(edges) == {i \in 1..Len(edges) : ScopeAccepts(edges[i].node)}
        \* the input position of the k-th kept record
        Pos(edges, k) ==
            CHOOSE i \in Kept(edges) : Cardinality({j \in Kept(edges) : j <= i}) = k
        Stable(edges, out) ==
            /\ Len(out) = Cardinality(Kept(edges))
            /\ \A k \in 1..Len(out) : out[k] = edges[Pos(edges, k)].node
            /\ (TARGET_ORGS = <<>> /\ TARGET_REPOS = <<>> /\ TARGET_USERS = <<>>)
                  => out = NodesOf(edges)
    IN /\ FiltersApplied =>
             /\ Stable(review_requests, filtered_review_requests)
             /\ Stable(authored_prs, filtered_authored_prs)
       /\ \A k \in ReviewPrinted :
             /\ AttrOf(stdout[ReviewTitlePos(k)], "href") = filtered_review_requests[k].url
             /\ IsPrefix(<<"#", ToString(filtered_review_requests[k].number)>>,
                         stdout[ReviewTitlePos(k) + 1])
       /\ \A k \in AuthoredPrinted :
             /\ AttrOf(stdout[AuthoredTitlePos(k)], "href") = filtered_authored_prs[k].url
             /\ IsPrefix(<<"#", ToString(filtered_authored_prs[k].number)>>,
                         stdout[AuthoredTitlePos(k) + 1])

\* Two different records were kept, a filter being set, and both are printed.
C9_Witness ==
    /\ pc = "exited"
    /\ TARGET_ORGS # <<>>
    /\ Len(filtered_review_requests) = 2
    /\ filtered_review_requests[1] # filtered_review_requests[2]
    /\ ReviewPrinted = {1, 2}

\* C10: no line is printed before both searches have succeeded; when the
\* review-requested search fails the authored search is never issued, and a
\* failure of either search ends the run abnormally with nothing printed.
C10_NoPartialMenu ==
    /\ (CredentialsPresent /\ stdout # <<>>) =>
          /\ Len(requests) = 2
          /\ exception = "none"
          /\ pc \notin {"main", "get_authored_prs", "crashed"}
    /\ exception = "get_review_requests" =>
          /\ requests = <<review_query(GITHUB_LOGIN, FILTERS)>>
          /\ stdout = <<>>
          /\ pc = "crashed"
          /\ exit_status \notin {0, NoStatus}
    /\ exception = "get_authored_prs" =>
          /\ stdout = <<>>
          /\ pc = "crashed"
          /\ exit_status \notin {0, NoStatus}

\* The first search returned records and the second one failed.
C10_Witness ==
    /\ exception = "get_authored_prs"
    /\ review_requests # <<>>
    /\ pc = "crashed"

====
